---- MODULE Spec2Model ----
(***************************************************************************)
(* Model of the project generator of go-skeleton (src/main.go).            *)
(*                                                                         *)
(* Strings are sequences of atoms.  An atom is a chunk of bytes that the   *)
(* program never splits ("y", "-", "github.com/rahmatrdn/", the two-space  *)
(* indentation unit "  ", the newline "\n").  Substring search and         *)
(* replacement work on atoms exactly as strings.ReplaceAll works on bytes. *)
(* The filesystem is the destination tree, keyed by the path relative to   *)
(* config.ProjectPath.                                                     *)
(***************************************************************************)
EXTENDS FiniteSets, Integers, Sequences, TLC

VARIABLES
  pc,           \* position of the run in main / collectConfiguration / createProject
  config,       \* the ProjectConfig being filled and then used
  rbuf,         \* lines buffered in the bufio.Reader of collectConfiguration
  eof,          \* standard input is exhausted
  confirmLine,  \* the line confirm evaluated
  tmpl,         \* the template: modes of its files and directories, and
                \* the optional files it lacks
  call,         \* a prompt function called on its own: its arguments, the
                \* line it read last and what it returned
  umask,        \* the umask of the process
  fs,           \* the destination tree
  prov,         \* how each file of the destination tree came to its content
  err,          \* the error createProject returned
  exitCode,     \* exit status of the process, -1 while it runs
  log,          \* the steps executed so far, in order
  out,          \* the messages printed so far
  iofail        \* the steps in which a filesystem call failed (other than
                \* the removal of a missing file)

vars == <<pc, config, rbuf, eof, confirmLine, tmpl, call, umask, fs, prov, err,
          exitCode, log, out, iofail>>

\* Largest number of input lines one read of standard input delivers.
MaxChunk == 2

(***************************************************************************)
(* String helpers (package strings).                                       *)
(***************************************************************************)
NL == "\n"
SP == " "
IND == "  "

Min(a, b) == IF a < b THEN a ELSE b

IsSpace(a) == a \in {SP, NL, "\t"}

RECURSIVE TrimLeft(_)
TrimLeft(s) ==
  IF s # <<>> /\ IsSpace(Head(s)) THEN TrimLeft(Tail(s)) ELSE s

RECURSIVE TrimRight(_)
TrimRight(s) ==
  IF s # <<>> /\ IsSpace(s[Len(s)]) THEN TrimRight(SubSeq(s, 1, Len(s) - 1)) ELSE s

TrimSpace(s) == TrimRight(TrimLeft(s))

LowerAtom(a) ==
  CASE a = "Y" -> "y"
    [] a = "E" -> "e"
    [] a = "S" -> "s"
    [] a = "N" -> "n"
    [] a = "D" -> "d"
    [] a = "My" -> "my"
    [] a = "App" -> "app"
    [] OTHER -> a

ToLower(s) == [i \in 1..Len(s) |-> LowerAtom(s[i])]

Contains(s, p) == \E i \in 0..(Len(s) - Len(p)) : SubSeq(s, i + 1, i + Len(p)) = p

\* strings.Index: the offset of the first occurrence of p in s, -1 if none.
Index(s, p) ==
  IF Contains(s, p)
  THEN CHOOSE i \in 0..(Len(s) - Len(p)) :
         /\ SubSeq(s, i + 1, i + Len(p)) = p
         /\ \A j \in 0..(i - 1) : SubSeq(s, j + 1, j + Len(p)) # p
  ELSE -1

\* strings.ReplaceAll: leftmost, non-overlapping occurrences of a non-empty old.
RECURSIVE ReplaceAll(_, _, _)
ReplaceAll(s, old, new) ==
  LET i == Index(s, old) IN
  IF i < 0 THEN s
  ELSE SubSeq(s, 1, i) \o new \o ReplaceAll(SubSeq(s, i + Len(old) + 1, Len(s)), old, new)

\* strings.Split(content, "\n")
RECURSIVE Split(_)
Split(s) ==
  LET i == Index(s, <<NL>>) IN
  IF i < 0 THEN <<s>>
  ELSE <<SubSeq(s, 1, i)>> \o Split(SubSeq(s, i + 2, Len(s)))

\* strings.Join(lines, "\n")
RECURSIVE Join(_)
Join(ls) ==
  IF ls = <<>> THEN <<>>
  ELSE IF Len(ls) = 1 THEN ls[1]
       ELSE ls[1] \o <<NL>> \o Join(Tail(ls))

sanitizeNameBad(name) == ReplaceAll(name, <<"-">>, <<"_">>)

sanitizeName(name) == ReplaceAll(ToLower(name), <<"-">>, <<"_">>)

(***************************************************************************)
(* ProjectConfig and the prompts.                                          *)
(***************************************************************************)
ProjectConfig ==
  [ProjectName |-> <<>>, ProjectPath |-> <<>>, ModulePath |-> <<>>,
   Database |-> "", UseRedis |-> FALSE, UseRabbitMQ |-> FALSE]

oldModule == <<"github.com/rahmatrdn/", "go-skeleton">>

DefaultName == <<"my", "-", "go", "-", "api">>
defaultPath(name) == <<"./">> \o name
defaultModule(name) == <<"github.com/yourusername/">> \o name

validChoices == {<<"1">>, <<"2">>, <<"3">>}
defaultChoice == <<"1">>

\* The lines a user may type at each prompt.
NameLines == {<<>>, <<SP, "My", "-", "App">>, <<"demo">>}
PathLines == {<<>>, <<"out">>}
ModuleLines == {<<>>, <<"example.com/", "demo">>, oldModule \o <<"/v2">>}
DbLines == {<<>>, <<"1">>, <<"2">>, <<"3">>, <<"9">>}
RedisLines == {<<>>, <<"y">>, <<"Y", "E", "S", SP>>}
RabbitLines == {<<"y">>, <<"n">>}
ConfirmLines == {<<>>, <<"n">>, <<"N", SP>>, <<"Y", "E", "S">>}

\* The lines given to a prompt function that is called on its own.
PromptLines ==
  {<<>>, <<SP>>, <<SP, "My", "-", "App">>, <<"1">>, <<"3", SP>>, <<"9">>,
   <<"y">>, <<"Y", "E", "S", SP>>, <<"n">>}

PromptOrder == <<"name", "path", "module", "db", "redis", "rabbitmq", "confirm">>

LinesFor(p) ==
  CASE p = "name" -> NameLines
    [] p = "path" -> PathLines
    [] p = "module" -> ModuleLines
    [] p = "db" -> DbLines
    [] p = "redis" -> RedisLines
    [] p = "rabbitmq" -> RabbitLines
    [] p = "confirm" -> ConfirmLines

\* What one read(2) of standard input can deliver at prompt number i: the
\* answer to that prompt, followed by answers typed ahead for later prompts.
\* Prompt number 0 is a prompt function called on its own.
RECURSIVE ChunksOfLen(_, _)
ChunksOfLen(i, k) ==
  IF k = 0 THEN {<<>>}
  ELSE IF i = 0 THEN {<<a>> \o c : a \in PromptLines, c \in ChunksOfLen(0, k - 1)}
  ELSE {<<a>> \o c : a \in LinesFor(PromptOrder[Min(i, Len(PromptOrder))]),
                     c \in ChunksOfLen(i + 1, k - 1)}

Chunks(i) == UNION {ChunksOfLen(i, k) : k \in 1..MaxChunk}

\* bufio.Reader.ReadString('\n') on a reader with buffer buf at prompt number
\* i: a buffered line is returned first; otherwise one read fills the buffer;
\* at end of input the result is the empty string (the error is dropped).
\* The set of possible outcomes: the line, the buffer left, end of input.
ReadString(buf, i) ==
  IF buf # <<>> THEN {[line |-> Head(buf), buf |-> Tail(buf), eof |-> eof]}
  ELSE IF eof THEN {[line |-> <<>>, buf |-> <<>>, eof |-> TRUE]}
  ELSE {[line |-> <<>>, buf |-> <<>>, eof |-> TRUE]}
       \cup {[line |-> Head(c), buf |-> Tail(c), eof |-> FALSE] : c \in Chunks(i)}

promptStringBad(line, defaultValue) ==
  LET input == TrimSpace(line) IN
  IF input = <<>> THEN [done |-> TRUE, val |-> defaultValue]
  ELSE [done |-> TRUE, val |-> input]

\* promptString: [done |-> FALSE] stands for the recursive re-prompt.
promptString(line, defaultValue) ==
  LET input == TrimSpace(line) IN
  IF input = <<>> /\ defaultValue # <<>> THEN [done |-> TRUE, val |-> defaultValue]
  ELSE IF input = <<>> THEN [done |-> FALSE, val |-> <<>>]
  ELSE [done |-> TRUE, val |-> input]

promptBoolBad(line) ==
  LET input == TrimSpace(ToLower(line)) IN
  input = <<>> \/ input = <<"y">> \/ input = <<"y", "e", "s">>

promptBool(line) ==
  LET input == TrimSpace(ToLower(line)) IN
  input = <<"y">> \/ input = <<"y", "e", "s">>

promptChoiceBad(line) ==
  LET input == TrimSpace(line) IN
  IF input = <<>> THEN [done |-> TRUE, val |-> defaultChoice]
  ELSE [done |-> TRUE, val |-> input]

promptChoice(line) ==
  LET input == TrimSpace(line) IN
  IF input = <<>> THEN [done |-> TRUE, val |-> defaultChoice]
  ELSE IF input \in validChoices THEN [done |-> TRUE, val |-> input]
  ELSE [done |-> FALSE, val |-> <<>>]

confirmBad(line) ==
  LET input == TrimSpace(ToLower(line)) IN
  input = <<>> \/ input = <<"y">> \/ input = <<"n">>

confirm(line) ==
  LET input == TrimSpace(ToLower(line)) IN
  input = <<>> \/ input = <<"y">> \/ input = <<"y", "e", "s">>

dbOfChoiceBad(c) ==
  CASE c = <<"1">> -> "mysql"
    [] c = <<"2">> -> "postgresql"
    [] OTHER -> ""

dbOfChoice(c) ==
  CASE c = <<"1">> -> "mysql"
    [] c = <<"2">> -> "postgresql"
    [] c = <<"3">> -> "mongodb"
    [] OTHER -> ""

(***************************************************************************)
(* The filesystem: the destination tree below config.ProjectPath, and the  *)
(* template tree below "template".  "." is the root directory itself.      *)
(* WalkOrder lists the paths in the lexical order of filepath.Walk.        *)
(***************************************************************************)
WalkOrder ==
  <<".",
    ".devcontainer",
    ".devcontainer/.env.devcontainer",
    ".devcontainer/docker-compose.yml",
    ".gitignore",
    "Makefile",
    "config",
    "config/config.go",
    "config/gorm.go",
    "config/mongodb.go",
    "config/mysql.go",
    "config/postgre.go",
    "config/rabbitmq.go",
    "config/redis.go",
    "go.mod",
    "internal",
    "internal/repository",
    "internal/repository/mongodb",
    "internal/repository/mongodb/log.go",
    "internal/repository/mysql",
    "internal/repository/mysql/todo_list.go">>

Paths == {WalkOrder[i] : i \in 1..Len(WalkOrder)}

\* filepath.Dir
Parent(p) ==
  CASE p \in {".devcontainer/.env.devcontainer", ".devcontainer/docker-compose.yml"}
         -> ".devcontainer"
    [] p \in {"config/config.go", "config/gorm.go", "config/mongodb.go", "config/mysql.go",
              "config/postgre.go", "config/rabbitmq.go", "config/redis.go"}
         -> "config"
    [] p = "internal/repository" -> "internal"
    [] p \in {"internal/repository/mongodb", "internal/repository/mysql"}
         -> "internal/repository"
    [] p = "internal/repository/mongodb/log.go" -> "internal/repository/mongodb"
    [] p = "internal/repository/mysql/todo_list.go" -> "internal/repository/mysql"
    [] OTHER -> "."

ExtBad(p) == IF p = "go.mod" THEN ".mod" ELSE ".go"

\* The suffix of the path that strings.HasSuffix(path, ".go" / ".mod") looks at.
Ext(p) ==
  CASE p \in {"config/config.go", "config/gorm.go", "config/mongodb.go", "config/mysql.go",
              "config/postgre.go", "config/rabbitmq.go", "config/redis.go",
              "internal/repository/mongodb/log.go",
              "internal/repository/mysql/todo_list.go"} -> ".go"
    [] p = "go.mod" -> ".mod"
    [] OTHER -> ""

RECURSIVE IsUnder(_, _)
IsUnder(q, p) ==
  IF q = "." THEN FALSE
  ELSE Parent(q) = p \/ IsUnder(Parent(q), p)

\* Permission bits as sets.
M644 == {"ur", "uw", "gr", "or"}
M666 == {"ur", "uw", "gr", "gw", "or", "ow"}
M755 == {"ur", "uw", "ux", "gr", "gx", "or", "ox"}
Umask022 == {"gw", "ow"}

FileModes == {M644, M755}
DirModes == {M755}
Umasks == {Umask022}

Absent == [kind |-> "none", mode |-> {}, content |-> <<>>]
File(m, c) == [kind |-> "file", mode |-> m, content |-> c]
Dir(m) == [kind |-> "dir", mode |-> m, content |-> <<>>]

EmptyFS == [p \in Paths |-> Absent]

Import(pkg) == <<"import", SP>> \o oldModule \o <<pkg, NL>>

ConfigGo ==
  <<"type", SP, "Config", SP, "struct", SP, "{", NL,
    IND, "MysqlOption", NL,
    IND, "PostgreSqlOption", NL,
    IND, "MongodbOption", NL,
    IND, "RedisOption", NL,
    IND, "RabbitMQOption", NL,
    "}", NL,
    "type", SP, "MysqlOption", SP, "struct", SP, "{", NL,
    IND, "URI", SP, "string", NL,
    "}", NL,
    "type", SP, "RedisOption", SP, "struct", SP, "{", NL,
    IND, "Host", SP, "string", NL,
    "}", NL>>

TemplateContent(p) ==
  CASE p = ".devcontainer/.env.devcontainer"
         -> <<"DB_DATABASE", "=", "PROJECT_DB_NAME", NL, "DB_USER", "=", "PROJECT_DB_NAME", NL>>
    [] p = ".gitignore" -> <<".env", NL>>
    [] p = "Makefile" -> <<"MODULE", "=">> \o oldModule \o <<NL>>
    [] p = "config/config.go" -> ConfigGo
    [] p = "internal/repository/mongodb/log.go" -> Import("/internal/helper")
    [] p = "internal/repository/mysql/todo_list.go" -> Import("/entity")
    [] OTHER -> <<"package", SP, "config", NL>>

TemplateDirs ==
  {".", ".devcontainer", "config", "internal", "internal/repository",
   "internal/repository/mongodb", "internal/repository/mysql"}

TemplateFiles ==
  Paths \ (TemplateDirs \cup {".devcontainer/docker-compose.yml", "go.mod"})

\* The templates a build can bundle: the full one, and one that lacks two
\* of the optional files.
Templates ==
  [fileMode : FileModes, dirMode : DirModes, missing : {{}}]
  \cup {[fileMode |-> M644, dirMode |-> M755,
         missing |-> {"config/postgre.go", "config/redis.go"}]}

\* The template tree for given modes of its files and directories.
Template(t) ==
  [p \in Paths |->
     IF p \in t.missing THEN Absent
     ELSE IF p \in TemplateDirs THEN Dir(t.dirMode)
     ELSE IF p \in TemplateFiles THEN File(t.fileMode, TemplateContent(p))
     ELSE Absent]

HasChild(f, p) == \E q \in Paths : q # p /\ Parent(q) = p /\ f[q].kind # "none"

\* Results of filesystem calls: the new tree and whether the call succeeded.
Ok(f) == [fs |-> f, ok |-> TRUE]
Fail(f) == [fs |-> f, ok |-> FALSE]

\* os.Remove
osRemove(f, p) ==
  IF f[p].kind = "none" THEN Fail(f)
  ELSE IF f[p].kind = "dir" /\ HasChild(f, p) THEN Fail(f)
  ELSE Ok([f EXCEPT ![p] = Absent])

\* os.RemoveAll
osRemoveAll(f, p) ==
  Ok([q \in Paths |-> IF q = p \/ IsUnder(q, p) THEN Absent ELSE f[q]])

\* os.OpenFile(path, O_WRONLY|O_CREATE|O_TRUNC, perm) followed by the write:
\* an existing file keeps its mode, a new one gets perm minus the umask.
osWriteFile(f, p, data, perm, um) ==
  IF f[Parent(p)].kind # "dir" \/ f[p].kind = "dir" THEN Fail(f)
  ELSE Ok([f EXCEPT ![p] =
             File(IF f[p].kind = "file" THEN f[p].mode ELSE perm \ um, data)])

\* os.Create(name) is OpenFile(name, O_RDWR|O_CREATE|O_TRUNC, 0666)
osCreate(f, p, um) == osWriteFile(f, p, <<>>, M666, um)

\* os.MkdirAll
RECURSIVE osMkdirAll(_, _, _, _)
osMkdirAll(f, p, perm, um) ==
  IF f[p].kind = "dir" THEN Ok(f)
  ELSE IF f[p].kind = "file" THEN Fail(f)
  ELSE LET up == IF p = "." THEN Ok(f) ELSE osMkdirAll(f, Parent(p), perm, um) IN
       IF ~up.ok THEN up
       ELSE Ok([up.fs EXCEPT ![p] = Dir(perm \ um)])

\* os.ReadFile
osReadFile(f, p) ==
  IF f[p].kind = "file" THEN [content |-> f[p].content, ok |-> TRUE]
  ELSE [content |-> <<>>, ok |-> FALSE]

(***************************************************************************)
(* The steps of createProject as functions on the destination tree.        *)
(* A parameter named failAt / deny injects an I/O error of the environment *)
(* (permission denied, disk full) at that point; 0 / {} injects none.      *)
(***************************************************************************)
copyFileBad(f, src, dst, um) == osCreate(f, dst, um)

\* copyFile: os.Open(src), os.Create(dst), io.Copy
copyFile(f, src, dst, um) ==
  LET c == osCreate(f, dst, um) IN
  IF ~c.ok THEN c
  ELSE Ok([c.fs EXCEPT ![dst].content = src.content])

\* The callback of filepath.Walk("template", ...) from entry i on.
RECURSIVE copyWalk(_, _, _, _, _)
copyWalk(f, T, um, i, failAt) ==
  IF i > Len(WalkOrder) THEN Ok(f)
  ELSE LET p == WalkOrder[i]
           info == T[p] IN
       IF info.kind = "none" THEN copyWalk(f, T, um, i + 1, failAt)
       ELSE IF p = "." THEN copyWalk(f, T, um, i + 1, failAt)
       ELSE IF i = failAt THEN Fail(f)
       ELSE LET r == IF info.kind = "dir"
                     THEN osMkdirAll(f, p, info.mode, um)
                     ELSE copyFile(f, info, p, um) IN
            IF r.ok THEN copyWalk(r.fs, T, um, i + 1, failAt) ELSE r

copyTemplate(f, T, um, failAt) ==
  LET w == copyWalk(f, T, um, 1, failAt) IN
  IF ~w.ok THEN w
  ELSE IF T[".gitignore"].kind # "none"
       THEN IF failAt = Len(WalkOrder) + 1 THEN Fail(w.fs)
            ELSE copyFile(w.fs, T[".gitignore"], ".gitignore", um)
       ELSE w

Require(mod, ver) == <<"\t", mod, SP, ver, NL>>

goModContent(cfg) ==
  <<"module", SP>> \o cfg.ModulePath \o <<NL, NL, "go", SP, "1.24.1", NL, NL,
    "require", SP, "(", NL>>
  \o Require("github.com/DATA-DOG/go-sqlmock", "v1.5.0")
  \o Require("github.com/bxcodec/faker", "v2.0.1+incompatible")
  \o Require("github.com/go-co-op/gocron/v2", "v2.11.0")
  \o Require("github.com/go-playground/locales", "v0.14.1")
  \o Require("github.com/go-playground/universal-translator", "v0.18.1")
  \o Require("github.com/go-playground/validator/v10", "v10.14.1")
  \o Require("github.com/gofiber/fiber/v2", "v2.52.5")
  \o Require("github.com/gofiber/swagger", "v1.1.0")
  \o Require("github.com/golang-jwt/jwt/v4", "v4.5.2")
  \o Require("github.com/google/uuid", "v1.6.0")
  \o Require("github.com/joeshaw/envdecode", "v0.0.0-20200121155833-099f1fc765bd")
  \o Require("github.com/pkg/errors", "v0.9.1")
  \o Require("github.com/rabbitmq/amqp091-go", "v1.8.1")
  \o Require("github.com/redis/go-redis/v9", "v9.3.0")
  \o Require("github.com/stretchr/testify", "v1.9.0")
  \o Require("github.com/subosito/gotenv", "v1.4.2")
  \o Require("github.com/swaggo/swag", "v1.16.3")
  \o Require("github.com/valyala/fasthttp", "v1.51.0")
  \o Require("go.mongodb.org/mongo-driver", "v1.11.7")
  \o Require("go.uber.org/zap", "v1.27.0")
  \o Require("golang.org/x/crypto", "v0.36.0")
  \o Require("gorm.io/driver/mysql", "v1.5.1")
  \o Require("gorm.io/driver/postgres", "v1.5.9")
  \o Require("gorm.io/gorm", "v1.25.10")
  \o <<")", NL>>

createGoMod(f, cfg, um, failAt) ==
  IF failAt = 1 THEN Fail(f)
  ELSE osWriteFile(f, "go.mod", goModContent(cfg), M644, um)

\* The callback of filepath.Walk(config.ProjectPath, ...) from entry i on.
RECURSIVE rewriteWalk(_, _, _, _, _)
rewriteWalk(f, cfg, um, i, failAt) ==
  IF i > Len(WalkOrder) THEN Ok(f)
  ELSE LET path == WalkOrder[i]
           info == f[path] IN
       IF info.kind = "none" THEN
         IF path = "." THEN Fail(f) ELSE rewriteWalk(f, cfg, um, i + 1, failAt)
       ELSE IF info.kind = "dir" THEN rewriteWalk(f, cfg, um, i + 1, failAt)
       ELSE IF Ext(path) # ".go" /\ Ext(path) # ".mod" THEN
         rewriteWalk(f, cfg, um, i + 1, failAt)
       ELSE IF i = failAt THEN Fail(f)
       ELSE LET content == osReadFile(f, path).content
                newContent == ReplaceAll(content, oldModule, cfg.ModulePath)
                w == osWriteFile(f, path, newContent, info.mode, um) IN
            IF w.ok THEN rewriteWalk(w.fs, cfg, um, i + 1, failAt) ELSE w

updateModulePaths(f, cfg, um, failAt) == rewriteWalk(f, cfg, um, 1, failAt)

dbConfigs(db) ==
  CASE db = "mysql" -> "config/mysql.go"
    [] db = "postgresql" -> "config/postgre.go"
    [] db = "mongodb" -> "config/mongodb.go"

dbRepos(db) ==
  CASE db = "mysql" -> "internal/repository/mysql"
    [] db = "postgresql" -> "internal/repository/mysql"
    [] db = "mongodb" -> "internal/repository/mongodb"

Databases == {"mysql", "postgresql", "mongodb"}

\* The orders in which a range over a map of the three databases can run.
MapOrders == {o \in [1..3 -> Databases] : \A i, j \in 1..3 : i # j => o[i] # o[j]}

\* os.Remove / os.RemoveAll with the error dropped, as cleanupFiles calls them.
rm(f, p, deny) == IF p \in deny THEN f ELSE osRemove(f, p).fs
rmAll(f, p, deny) == IF p \in deny THEN f ELSE osRemoveAll(f, p).fs

cleanConfigBad(f, cfg, db, deny) ==
  IF db # cfg.Database
  THEN LET f1 == rm(f, dbConfigs(db), deny) IN
       IF db = "mysql" /\ f1["config/postgre.go"].kind = "file"
       THEN rm(f1, "config/gorm.go", deny) ELSE f1
  ELSE f

\* Body of the loop over dbConfigs.
cleanConfig(f, cfg, db, deny) ==
  IF db # cfg.Database
  THEN LET f1 == rm(f, dbConfigs(db), deny) IN
       IF db = "mysql" \/ db = "postgresql" THEN rm(f1, "config/gorm.go", deny) ELSE f1
  ELSE f

cleanRepoNoShare(f, cfg, db, deny) ==
  IF db # cfg.Database THEN rmAll(f, dbRepos(db), deny) ELSE f

\* Body of the loop over dbRepos.
cleanRepo(f, cfg, db, deny) ==
  IF db # cfg.Database
  THEN IF cfg.Database = "postgresql" /\ db = "mysql" THEN f
       ELSE IF cfg.Database = "mysql" /\ db = "postgresql" THEN f
       ELSE rmAll(f, dbRepos(db), deny)
  ELSE f

cleanServicesBad(f, cfg, deny) ==
  LET f1 == IF ~cfg.UseRedis THEN rm(f, "config/redis.go", deny) ELSE f IN
  IF ~cfg.UseRedis THEN rm(f1, "config/rabbitmq.go", deny) ELSE f1

\* The removal of the optional service configs.
cleanServices(f, cfg, deny) ==
  LET f1 == IF ~cfg.UseRedis THEN rm(f, "config/redis.go", deny) ELSE f IN
  IF ~cfg.UseRabbitMQ THEN rm(f1, "config/rabbitmq.go", deny) ELSE f1

cleanupFilesBad(f, cfg, o1, o2, deny) ==
  LET a == cleanConfig(cleanConfig(cleanConfig(f, cfg, o1[1], deny), cfg, o1[2], deny),
                       cfg, o1[3], deny)
      b == cleanRepo(cleanRepo(cleanRepo(a, cfg, o2[1], deny), cfg, o2[2], deny),
                     cfg, o2[3], deny) IN
  IF ~cfg.UseRedis /\ ~osRemove(b, "config/redis.go").ok THEN Fail(b)
  ELSE Ok(cleanServices(b, cfg, deny))

cleanupFiles(f, cfg, o1, o2, deny) ==
  LET a == cleanConfig(cleanConfig(cleanConfig(f, cfg, o1[1], deny), cfg, o1[2], deny),
                       cfg, o1[3], deny)
      b == cleanRepo(cleanRepo(cleanRepo(a, cfg, o2[1], deny), cfg, o2[2], deny),
                     cfg, o2[3], deny) IN
  Ok(cleanServices(b, cfg, deny))

(***************************************************************************)
(* The devcontainer composition document.  A line is its indentation (one  *)
(* IND atom per two spaces), its tokens and a newline.                     *)
(***************************************************************************)
Indent(n) == [i \in 1..n |-> IND]
Ln(n, toks) == Indent(n) \o toks \o <<NL>>
Blank == <<NL>>

RECURSIVE dependsOnYaml(_)
dependsOnYaml(deps) ==
  IF deps = <<>> THEN <<>>
  ELSE Ln(3, <<"-", SP, Head(deps)>>) \o dependsOnYaml(Tail(deps))

dependsOnBad(cfg) ==
  <<"db", "redis">> \o (IF cfg.UseRabbitMQ THEN <<"rabbitmq">> ELSE <<>>)

dependsOn(cfg) ==
  <<"db">> \o (IF cfg.UseRedis THEN <<"redis">> ELSE <<>>)
           \o (IF cfg.UseRabbitMQ THEN <<"rabbitmq">> ELSE <<>>)

appService(cfg) ==
     Ln(0, <<"services", ":">>)
  \o Ln(1, <<"app", ":">>)
  \o Ln(2, <<"build", ":">>)
  \o Ln(3, <<"context", ":", SP, ".">>)
  \o Ln(3, <<"dockerfile", ":", SP, "Dockerfile">>)
  \o Ln(2, <<"volumes", ":">>)
  \o Ln(3, <<"-", SP, "..", ":", "/workspace", ":", "cached">>)
  \o Ln(2, <<"command", ":", SP, "sleep infinity">>)
  \o Ln(2, <<"network_mode", ":", SP, "service:db">>)
  \o Ln(2, <<"depends_on", ":">>)
  \o dependsOnYaml(dependsOn(cfg))
  \o Blank

dbService(cfg) ==
  CASE cfg.Database = "mysql" ->
            Blank
         \o Ln(1, <<"db", ":">>)
         \o Ln(2, <<"image", ":", SP, "mysql:8.0">>)
         \o Ln(2, <<"restart", ":", SP, "unless-stopped">>)
         \o Ln(2, <<"environment", ":">>)
         \o Ln(3, <<"MYSQL_ROOT_PASSWORD", ":", SP, "root">>)
         \o Ln(3, <<"MYSQL_DATABASE", ":", SP>> \o sanitizeName(cfg.ProjectName))
         \o Ln(3, <<"MYSQL_USER", ":", SP>> \o sanitizeName(cfg.ProjectName))
         \o Ln(3, <<"MYSQL_PASSWORD", ":", SP>> \o sanitizeName(cfg.ProjectName))
         \o Ln(2, <<"volumes", ":">>)
         \o Ln(3, <<"-", SP, "mysql-data", ":", "/var/lib/mysql">>)
         \o Ln(2, <<"ports", ":">>)
         \o Ln(3, <<"-", SP, "\"3306:3306\"">>)
    [] cfg.Database = "postgresql" ->
            Blank
         \o Ln(1, <<"db", ":">>)
         \o Ln(2, <<"image", ":", SP, "postgres:15-alpine">>)
         \o Ln(2, <<"restart", ":", SP, "unless-stopped">>)
         \o Ln(2, <<"environment", ":">>)
         \o Ln(3, <<"POSTGRES_USER", ":", SP, "postgres">>)
         \o Ln(3, <<"POSTGRES_PASSWORD", ":", SP, "postgres">>)
         \o Ln(3, <<"POSTGRES_DB", ":", SP>> \o sanitizeName(cfg.ProjectName))
         \o Ln(2, <<"volumes", ":">>)
         \o Ln(3, <<"-", SP, "postgres-data", ":", "/var/lib/postgresql/data">>)
         \o Ln(2, <<"ports", ":">>)
         \o Ln(3, <<"-", SP, "\"5432:5432\"">>)
    [] cfg.Database = "mongodb" ->
            Blank
         \o Ln(1, <<"db", ":">>)
         \o Ln(2, <<"image", ":", SP, "mongo:6">>)
         \o Ln(2, <<"restart", ":", SP, "unless-stopped">>)
         \o Ln(2, <<"environment", ":">>)
         \o Ln(3, <<"MONGO_INITDB_DATABASE", ":", SP>> \o sanitizeName(cfg.ProjectName))
         \o Ln(2, <<"volumes", ":">>)
         \o Ln(3, <<"-", SP, "mongodb-data", ":", "/data/db">>)
         \o Ln(2, <<"ports", ":">>)
         \o Ln(3, <<"-", SP, "\"27017:27017\"">>)
    [] OTHER -> <<>>

redisServiceBad(cfg) ==
     Blank
  \o Ln(1, <<"redis", ":">>)
  \o Ln(2, <<"image", ":", SP, "redis:7-alpine">>)
  \o Ln(2, <<"volumes", ":">>)
  \o Ln(3, <<"-", SP, "redis-data", ":", "/data">>)

redisService(cfg) ==
  IF cfg.UseRedis
  THEN    Blank
       \o Ln(1, <<"redis", ":">>)
       \o Ln(2, <<"image", ":", SP, "redis:7-alpine">>)
       \o Ln(2, <<"restart", ":", SP, "unless-stopped">>)
       \o Ln(2, <<"command", ":", SP, "redis-server --requirepass \"\"">>)
       \o Ln(2, <<"volumes", ":">>)
       \o Ln(3, <<"-", SP, "redis-data", ":", "/data">>)
       \o Ln(2, <<"ports", ":">>)
       \o Ln(3, <<"-", SP, "\"6379:6379\"">>)
  ELSE <<>>

rabbitmqService(cfg) ==
  IF cfg.UseRabbitMQ
  THEN    Blank
       \o Ln(1, <<"rabbitmq", ":">>)
       \o Ln(2, <<"image", ":", SP, "rabbitmq:3-management-alpine">>)
       \o Ln(2, <<"restart", ":", SP, "unless-stopped">>)
       \o Ln(2, <<"environment", ":">>)
       \o Ln(3, <<"RABBITMQ_DEFAULT_USER", ":", SP, "guest">>)
       \o Ln(3, <<"RABBITMQ_DEFAULT_PASS", ":", SP, "guest">>)
       \o Ln(2, <<"volumes", ":">>)
       \o Ln(3, <<"-", SP, "rabbitmq-data", ":", "/var/lib/rabbitmq">>)
       \o Ln(2, <<"ports", ":">>)
       \o Ln(3, <<"-", SP, "\"5672:5672\"">>)
       \o Ln(3, <<"-", SP, "\"15672:15672\"">>)
  ELSE <<>>

volumesSection(cfg) ==
     Blank
  \o Ln(0, <<"volumes", ":">>)
  \o (CASE cfg.Database = "mysql" -> Ln(1, <<"mysql-data", ":">>)
        [] cfg.Database = "postgresql" -> Ln(1, <<"postgres-data", ":">>)
        [] cfg.Database = "mongodb" -> Ln(1, <<"mongodb-data", ":">>)
        [] OTHER -> <<>>)
  \o (IF cfg.UseRedis THEN Ln(1, <<"redis-data", ":">>) ELSE <<>>)
  \o (IF cfg.UseRabbitMQ THEN Ln(1, <<"rabbitmq-data", ":">>) ELSE <<>>)

generateDevcontainerDockerCompose(cfg) ==
  appService(cfg) \o dbService(cfg) \o redisService(cfg) \o rabbitmqService(cfg)
  \o volumesSection(cfg)

generateDevcontainer(f, cfg, um, failAt) ==
  IF failAt = 1 THEN Fail(f)
  ELSE osWriteFile(f, ".devcontainer/docker-compose.yml",
                   generateDevcontainerDockerCompose(cfg), M644, um)

removeLines(content, pattern) ==
  Join(SelectSeq(Split(content), LAMBDA line : ~Contains(line, <<pattern>>)))

updateConfigFiles(f, cfg, um, failAt) ==
  LET r == osReadFile(f, "config/config.go") IN
  IF failAt = 1 \/ ~r.ok THEN Fail(f)
  ELSE LET s1 == IF cfg.Database # "mysql" THEN removeLines(r.content, "MysqlOption")
                 ELSE r.content
           s2 == IF cfg.Database # "postgresql" THEN removeLines(s1, "PostgreSqlOption")
                 ELSE s1
           s3 == IF cfg.Database # "mongodb" THEN removeLines(s2, "MongodbOption") ELSE s2
           s4 == IF ~cfg.UseRedis THEN removeLines(s3, "RedisOption") ELSE s3
           s5 == IF ~cfg.UseRabbitMQ THEN removeLines(s4, "RabbitMQOption") ELSE s4 IN
       IF failAt = 2 THEN Fail(f)
       ELSE osWriteFile(f, "config/config.go", s5, M644, um)

updateEnvFiles(f, cfg, um, failAt) ==
  LET r == osReadFile(f, ".devcontainer/.env.devcontainer") IN
  IF failAt = 1 \/ ~r.ok THEN Fail(f)
  ELSE LET dbName == sanitizeName(cfg.ProjectName)
           envContent == ReplaceAll(r.content, <<"PROJECT_DB_NAME">>, dbName) IN
       IF failAt = 2 THEN Fail(f)
       ELSE osWriteFile(f, ".devcontainer/.env.devcontainer", envContent, M644, um)

(***************************************************************************)
(* collectConfiguration: one action per prompt.                            *)
(***************************************************************************)
NoError == [wrap |-> "", step |-> ""]

NoProvenance == [p \in Paths |-> {}]

NoCall == [fn |-> "", def |-> <<>>, line |-> <<>>, ret |-> <<>>, yes |-> FALSE]

Init ==
  /\ pc = "name"
  /\ config = ProjectConfig
  /\ rbuf = <<>>
  /\ eof = FALSE
  /\ confirmLine = [read |-> FALSE, line |-> <<>>]
  /\ tmpl \in Templates
  /\ call = NoCall
  /\ umask \in Umasks
  /\ fs = EmptyFS
  /\ prov = NoProvenance
  /\ err = NoError
  /\ exitCode = -1
  /\ log = <<>>
  /\ out = <<"banner">>
  /\ iofail = {}

NoFs == UNCHANGED <<tmpl, call, umask, fs, prov, err, exitCode, iofail>>

PromptProjectNameBad ==
  /\ pc = "name"
  /\ \E rd \in ReadString(rbuf, 1) :
       /\ rbuf' = rd.buf
       /\ eof' = rd.eof
       /\ LET line == rd.line
              r == promptString(line, <<>>) IN
          IF r.done
          THEN config' = [config EXCEPT !.ProjectName = r.val] /\ pc' = "path"
          ELSE UNCHANGED <<config, pc>>
  /\ UNCHANGED <<confirmLine, log, out>>
  /\ NoFs

PromptProjectName ==
  /\ pc = "name"
  /\ \E rd \in ReadString(rbuf, 1) :
       /\ rbuf' = rd.buf
       /\ eof' = rd.eof
       /\ LET line == rd.line
              r == promptString(line, DefaultName) IN
          IF r.done
          THEN config' = [config EXCEPT !.ProjectName = r.val] /\ pc' = "path"
          ELSE UNCHANGED <<config, pc>>
  /\ UNCHANGED <<confirmLine, log, out>>
  /\ NoFs

PromptProjectPathBad ==
  /\ pc = "path"
  /\ \E rd \in ReadString(rbuf, 2) :
       /\ rbuf' = rd.buf
       /\ eof' = rd.eof
       /\ LET line == rd.line
              r == promptString(line, defaultPath(config.ProjectName)) IN
          IF r.done
          THEN /\ config' = [config EXCEPT !.ProjectPath = r.val]
               /\ pc' = IF TrimSpace(line) = <<>> THEN "db" ELSE "module"
          ELSE UNCHANGED <<config, pc>>
  /\ UNCHANGED <<confirmLine, log, out>>
  /\ NoFs

PromptProjectPath ==
  /\ pc = "path"
  /\ \E rd \in ReadString(rbuf, 2) :
       /\ rbuf' = rd.buf
       /\ eof' = rd.eof
       /\ LET line == rd.line
              r == promptString(line, defaultPath(config.ProjectName)) IN
          IF r.done
          THEN config' = [config EXCEPT !.ProjectPath = r.val] /\ pc' = "module"
          ELSE UNCHANGED <<config, pc>>
  /\ UNCHANGED <<confirmLine, log, out>>
  /\ NoFs

PromptModulePath ==
  /\ pc = "module"
  /\ \E rd \in ReadString(rbuf, 3) :
       /\ rbuf' = rd.buf
       /\ eof' = rd.eof
       /\ LET line == rd.line
              r == promptString(line, defaultModule(config.ProjectName)) IN
          IF r.done
          THEN config' = [config EXCEPT !.ModulePath = r.val] /\ pc' = "db"
          ELSE UNCHANGED <<config, pc>>
  /\ UNCHANGED <<confirmLine, log, out>>
  /\ NoFs

PromptDatabase ==
  /\ pc = "db"
  /\ \E rd \in ReadString(rbuf, 4) :
       /\ rbuf' = rd.buf
       /\ eof' = rd.eof
       /\ LET line == rd.line
              r == promptChoice(line) IN
          IF r.done
          THEN /\ config' = [config EXCEPT !.Database = dbOfChoice(r.val)]
               /\ pc' = "redis"
               /\ out' = out
          ELSE /\ out' = IF out[Len(out)] = "Invalid choice" THEN out
                         ELSE Append(out, "Invalid choice")
               /\ UNCHANGED <<config, pc>>
  /\ UNCHANGED <<confirmLine, log>>
  /\ NoFs

PromptRedis ==
  /\ pc = "redis"
  /\ \E rd \in ReadString(rbuf, 5) :
       /\ rbuf' = rd.buf
       /\ eof' = rd.eof
       /\ config' = [config EXCEPT !.UseRedis = promptBool(rd.line)]
  /\ pc' = "rabbitmq"
  /\ UNCHANGED <<confirmLine, log, out>>
  /\ NoFs

\* The last prompt; collectConfiguration returns.
PromptRabbitMQ ==
  /\ pc = "rabbitmq"
  /\ \E rd \in ReadString(rbuf, 6) :
       /\ rbuf' = rd.buf
       /\ eof' = rd.eof
       /\ config' = [config EXCEPT !.UseRabbitMQ = promptBool(rd.line)]
  /\ pc' = "summary"
  /\ log' = Append(log, "collect")
  /\ UNCHANGED <<confirmLine, out>>
  /\ NoFs

PrintSummary ==
  /\ pc = "summary"
  /\ pc' = "confirm"
  /\ out' = Append(out, "summary")
  /\ UNCHANGED <<config, rbuf, eof, confirmLine, log>>
  /\ NoFs

\* confirm makes a new bufio.Reader on os.Stdin: what the reader of
\* collectConfiguration still holds in its buffer is out of reach.
Confirm ==
  /\ pc = "confirm"
  /\ \E rd \in ReadString(<<>>, 7) :
       /\ eof' = rd.eof
       /\ confirmLine' = [read |-> TRUE, line |-> rd.line]
       /\ pc' = IF confirm(rd.line) THEN "mkdir" ELSE "cancelled"
  /\ rbuf' = <<>>
  /\ log' = Append(log, "confirm")
  /\ UNCHANGED <<config, out>>
  /\ NoFs

Cancel ==
  /\ pc = "cancelled"
  /\ out' = Append(out, "Cancelled.")
  /\ exitCode' = 0
  /\ pc' = "exit"
  /\ UNCHANGED <<config, rbuf, eof, confirmLine, tmpl, call, umask, fs, prov, err, log, iofail>>

(***************************************************************************)
(* createProject: one action per step.  r is the outcome of the step's     *)
(* filesystem work, wrap the text the step's error is wrapped with.        *)
(***************************************************************************)
\* The provenance of every file after a step that took the tree from f to
\* r.fs: copyTemplate makes copies, createGoMod and generateDevcontainer
\* write generated content, the rewriting steps patch what they change.
Provenance(step, f, r, pv) ==
  [p \in Paths |->
     IF r.fs[p].kind # "file" THEN {}
     ELSE CASE step = "copy" -> IF r.fs[p] # f[p] THEN {"copied"} ELSE pv[p]
            [] step = "gomod" -> IF r.ok /\ p = "go.mod" THEN {"generated"} ELSE pv[p]
            [] step = "devcontainer" ->
                 IF r.ok /\ p = ".devcontainer/docker-compose.yml" THEN {"generated"}
                 ELSE pv[p]
            [] step \in {"rewrite", "config", "env"} ->
                 IF r.fs[p].content # f[p].content THEN pv[p] \cup {"patched"} ELSE pv[p]
            [] OTHER -> pv[p]]

StepBad(step, r, wrap, next) ==
  /\ log' = Append(log, step)
  /\ fs' = r.fs
  /\ prov' = Provenance(step, fs, r, prov)
  /\ pc' = next
  /\ iofail' = IF r.ok THEN iofail ELSE iofail \cup {step}
  /\ UNCHANGED <<config, rbuf, eof, confirmLine, tmpl, call, umask, err, exitCode, out>>

Step(step, r, wrap, next) ==
  /\ log' = Append(log, step)
  /\ fs' = r.fs
  /\ prov' = Provenance(step, fs, r, prov)
  /\ IF r.ok
     THEN pc' = next /\ UNCHANGED <<err, iofail>>
     ELSE /\ pc' = "failed"
          /\ err' = [wrap |-> wrap, step |-> step]
          /\ iofail' = iofail \cup {step}
  /\ UNCHANGED <<config, rbuf, eof, confirmLine, tmpl, call, umask, exitCode, out>>

MkdirProject(failAt) ==
  /\ pc = "mkdir"
  /\ Step("mkdir",
          IF failAt = 1 THEN Fail(fs) ELSE osMkdirAll(fs, ".", M755, umask),
          "failed to create directory", "copy")

CopyTemplate(failAt) ==
  /\ pc = "copy"
  /\ Step("copy", copyTemplate(fs, Template(tmpl), umask, failAt),
          "failed to copy template", "gomod")

CreateGoMod(failAt) ==
  /\ pc = "gomod"
  /\ Step("gomod", createGoMod(fs, config, umask, failAt),
          "failed to create go.mod", "rewrite")

UpdateModulePaths(failAt) ==
  /\ pc = "rewrite"
  /\ Step("rewrite", updateModulePaths(fs, config, umask, failAt),
          "failed to update module paths", "prune")

\* cleanupFiles drops the error of every removal and always returns nil.
CleanupFiles(deny) ==
  /\ pc = "prune"
  /\ \E o1, o2 \in MapOrders :
       LET r == cleanupFiles(fs, config, o1, o2, deny)
           clean == cleanupFiles(fs, config, o1, o2, {}) IN
       /\ log' = Append(log, "prune")
       /\ fs' = r.fs
       /\ prov' = Provenance("prune", fs, r, prov)
       /\ IF r.ok
          THEN pc' = "devcontainer" /\ UNCHANGED err
          ELSE pc' = "failed" /\ err' = [wrap |-> "failed to cleanup", step |-> "prune"]
       /\ iofail' = IF r.fs # clean.fs THEN iofail \cup {"prune"} ELSE iofail
  /\ UNCHANGED <<config, rbuf, eof, confirmLine, tmpl, call, umask, exitCode, out>>

GenerateDevcontainer(failAt) ==
  /\ pc = "devcontainer"
  /\ Step("devcontainer", generateDevcontainer(fs, config, umask, failAt),
          "failed to generate devcontainer", "config")

UpdateConfigFiles(failAt) ==
  /\ pc = "config"
  /\ Step("config", updateConfigFiles(fs, config, umask, failAt),
          "failed to update config", "env")

UpdateEnvFiles(failAt) ==
  /\ pc = "env"
  /\ Step("env", updateEnvFiles(fs, config, umask, failAt),
          "failed to update env files", "success")

\* main: createProject returned an error.
ExitError ==
  /\ pc = "failed"
  /\ out' = Append(out, "Error")
  /\ exitCode' = 1
  /\ pc' = "exit"
  /\ UNCHANGED <<config, rbuf, eof, confirmLine, tmpl, call, umask, fs, prov, err, log, iofail>>

PrintSuccessBad ==
  /\ pc = "success"
  /\ out' = Append(out, "success")
  /\ log' = Append(log, "report")
  /\ exitCode' = 0
  /\ pc' = "exit"
  /\ config' = [config EXCEPT !.ProjectPath = config.ProjectName]
  /\ UNCHANGED <<rbuf, eof, confirmLine, tmpl, call, umask, fs, prov, err, iofail>>

PrintSuccess ==
  /\ pc = "success"
  /\ out' = Append(out, "success")
  /\ log' = Append(log, "report")
  /\ exitCode' = 0
  /\ pc' = "exit"
  /\ UNCHANGED <<config, rbuf, eof, confirmLine, tmpl, call, umask, fs, prov, err, iofail>>

\* A run on a filesystem whose calls fail only for what the tree itself is.
Next ==
  \/ PromptProjectName
  \/ PromptProjectPath
  \/ PromptModulePath
  \/ PromptDatabase
  \/ PromptRedis
  \/ PromptRabbitMQ
  \/ PrintSummary
  \/ Confirm
  \/ Cancel
  \/ MkdirProject(0)
  \/ CopyTemplate(0)
  \/ CreateGoMod(0)
  \/ UpdateModulePaths(0)
  \/ CleanupFiles({})
  \/ GenerateDevcontainer(0)
  \/ UpdateConfigFiles(0)
  \/ UpdateEnvFiles(0)
  \/ PrintSuccess

Spec == Init /\ [][Next]_vars

\* collectConfiguration on its own.  The process is never suspended: as long
\* as it can take a step that changes its state, it takes one.
NextCollect ==
  \/ PromptProjectName
  \/ PromptProjectPath
  \/ PromptModulePath
  \/ PromptDatabase
  \/ PromptRedis
  \/ PromptRabbitMQ

SpecCollect == Init /\ [][NextCollect]_vars /\ WF_vars(NextCollect)

\* The points at which the environment makes a filesystem call fail.
CopyFaults == {2, 8, Len(WalkOrder) + 1}
RewriteFaults == {8, 21}
DenySets == {{"config/redis.go"}, {"config/gorm.go", "internal/repository/mongodb"}}

NextIO ==
  \/ Next
  \/ MkdirProject(1)
  \/ \E k \in CopyFaults : CopyTemplate(k)
  \/ CreateGoMod(1)
  \/ \E k \in RewriteFaults : UpdateModulePaths(k)
  \/ \E d \in DenySets : CleanupFiles(d)
  \/ GenerateDevcontainer(1)
  \/ \E k \in 1..2 : UpdateConfigFiles(k)
  \/ \E k \in 1..2 : UpdateEnvFiles(k)
  \/ ExitError

SpecIO == Init /\ [][NextIO]_vars

(***************************************************************************)
(* The prompt functions called on their own, with any default and any      *)
(* lines on standard input.  pc = "call" while the function (or its        *)
(* recursive re-prompt) is about to read a line, "returned" once it has    *)
(* returned.                                                               *)
(***************************************************************************)
PromptDefaults == {<<>>, DefaultName}

InitPrompt ==
  /\ pc = "call"
  /\ call \in {[NoCall EXCEPT !.fn = "promptString", !.def = d] : d \in PromptDefaults}
             \cup {[NoCall EXCEPT !.fn = "promptChoice", !.def = defaultChoice],
                   [NoCall EXCEPT !.fn = "promptBool"]}
  /\ config = ProjectConfig
  /\ rbuf = <<>>
  /\ eof = FALSE
  /\ confirmLine = [read |-> FALSE, line |-> <<>>]
  /\ tmpl \in [fileMode : {M644}, dirMode : {M755}, missing : {{}}]
  /\ umask \in Umasks
  /\ fs = EmptyFS
  /\ prov = NoProvenance
  /\ err = NoError
  /\ exitCode = -1
  /\ log = <<>>
  /\ out = <<>>
  /\ iofail = {}

NoRun == UNCHANGED <<config, confirmLine, tmpl, umask, fs, prov, err, exitCode, log, iofail>>

CallPromptString ==
  /\ pc = "call"
  /\ call.fn = "promptString"
  /\ \E rd \in ReadString(rbuf, 0) :
       /\ rbuf' = rd.buf
       /\ eof' = rd.eof
       /\ LET r == promptString(rd.line, call.def) IN
          /\ call' = [call EXCEPT !.line = rd.line, !.ret = r.val]
          /\ pc' = IF r.done THEN "returned" ELSE "call"
  /\ out' = out
  /\ NoRun

CallPromptChoice ==
  /\ pc = "call"
  /\ call.fn = "promptChoice"
  /\ \E rd \in ReadString(rbuf, 0) :
       /\ rbuf' = rd.buf
       /\ eof' = rd.eof
       /\ LET r == promptChoice(rd.line) IN
          /\ call' = [call EXCEPT !.line = rd.line, !.ret = r.val]
          /\ pc' = IF r.done THEN "returned" ELSE "call"
          /\ out' = IF r.done \/ (out # <<>> /\ out[Len(out)] = "Invalid choice") THEN out
                    ELSE Append(out, "Invalid choice")
  /\ NoRun

CallPromptBool ==
  /\ pc = "call"
  /\ call.fn = "promptBool"
  /\ \E rd \in ReadString(rbuf, 0) :
       /\ rbuf' = rd.buf
       /\ eof' = rd.eof
       /\ call' = [call EXCEPT !.line = rd.line, !.yes = promptBool(rd.line)]
  /\ pc' = "returned"
  /\ out' = out
  /\ NoRun

NextPrompt ==
  \/ CallPromptString
  \/ CallPromptChoice
  \/ CallPromptBool

SpecPrompt == InitPrompt /\ [][NextPrompt]_vars

(***************************************************************************)
(* The earlier variant of the generator (src/unnamed/part_000).  It asks   *)
(* one more question, whether MongoDB is used for logging, takes the       *)
(* destination "./" + name without asking, writes no go.mod and leaves     *)
(* .env.devcontainer alone.  Its loop over dbConfigs, its Redis, RabbitMQ  *)
(* and db blocks and its copy and rewrite steps are line for line those of *)
(* src/main.go and are modelled by the same operators.  The run is         *)
(* followed from the last question on.                                     *)
(***************************************************************************)
\* The configurations collectConfiguration has built before its last question.
Configs_v0 ==
  {[ProjectName |-> n, ProjectPath |-> defaultPath(n), ModulePath |-> defaultModule(n),
    Database |-> d, UseRedis |-> r, UseRabbitMQ |-> q, UseMongoLogger |-> FALSE] :
     n \in {DefaultName, <<"demo">>}, d \in Databases, r \in BOOLEAN, q \in BOOLEAN}

cleanupFiles_v0(f, cfg, o1) ==
  LET a == cleanConfig(cleanConfig(cleanConfig(f, cfg, o1[1], {}), cfg, o1[2], {}),
                       cfg, o1[3], {})
      b == cleanServices(a, cfg, {})
      c == IF ~cfg.UseMongoLogger /\ cfg.Database # "mongodb"
           THEN rm(b, "config/mongodb.go", {}) ELSE b IN
  Ok(c)

\* The document up to the first entry of the app service's depends_on list.
appService_v0(cfg) ==
     Ln(0, <<"version", ":", SP, "'3.8'">>)
  \o Blank
  \o Ln(0, <<"services", ":">>)
  \o Ln(1, <<"app", ":">>)
  \o Ln(2, <<"build", ":">>)
  \o Ln(3, <<"context", ":", SP, ".">>)
  \o Ln(3, <<"dockerfile", ":", SP, "Dockerfile">>)
  \o Ln(2, <<"volumes", ":">>)
  \o Ln(3, <<"-", SP, "..", ":", "/workspace", ":", "cached">>)
  \o Ln(2, <<"command", ":", SP, "sleep infinity">>)
  \o Ln(2, <<"network_mode", ":", SP, "service:db">>)
  \o Ln(2, <<"depends_on", ":">>)
  \o Ln(3, <<"-", SP, "db">>)

boolToService(condition, service) == IF condition THEN service ELSE <<>>

\* The switch on config.Database: the rest of depends_on, then the db block
\* (dbService without its leading blank line).
dbService_v0(cfg) ==
     Ln(3, <<"-", SP, "redis">>)
  \o Ln(3, <<"-", SP, "rabbitmq">>)
  \o (IF cfg.Database = "mongodb" THEN Blank
      ELSE boolToService(cfg.UseMongoLogger, Ln(3, <<"-", SP, "mongodb">>))
           \o Blank \o Blank)
  \o Tail(dbService(cfg))

mongodbService_v0(cfg) ==
  IF cfg.UseMongoLogger /\ cfg.Database # "mongodb"
  THEN    Blank
       \o Ln(1, <<"mongodb", ":">>)
       \o Ln(2, <<"image", ":", SP, "mongo:6">>)
       \o Ln(2, <<"restart", ":", SP, "unless-stopped">>)
       \o Ln(2, <<"environment", ":">>)
       \o Ln(3, <<"MONGO_INITDB_DATABASE", ":", SP>> \o sanitizeName(cfg.ProjectName)
                \o <<"_logs">>)
       \o Ln(2, <<"volumes", ":">>)
       \o Ln(3, <<"-", SP, "mongodb-data", ":", "/data/db">>)
       \o Ln(2, <<"ports", ":">>)
       \o Ln(3, <<"-", SP, "\"27017:27017\"">>)
  ELSE <<>>

generateDevcontainerDockerCompose_v0(cfg) ==
  appService_v0(cfg) \o dbService_v0(cfg) \o redisService(cfg) \o rabbitmqService(cfg)
  \o mongodbService_v0(cfg) \o volumesSection(cfg)
  \o (IF cfg.UseMongoLogger /\ cfg.Database # "mongodb"
      THEN Ln(1, <<"mongodb-data", ":">>) ELSE <<>>)

generateDevcontainer_v0(f, cfg, um) ==
  osWriteFile(f, ".devcontainer/docker-compose.yml",
              generateDevcontainerDockerCompose_v0(cfg), M644, um)

updateConfigFiles_v0(f, cfg, um) ==
  LET r == osReadFile(f, "config/config.go") IN
  IF ~r.ok THEN Fail(f)
  ELSE LET s1 == IF cfg.Database # "mysql" THEN removeLines(r.content, "MysqlOption")
                 ELSE r.content
           s2 == IF cfg.Database # "postgresql" THEN removeLines(s1, "PostgreSqlOption")
                 ELSE s1
           s3 == IF cfg.Database # "mongodb" /\ ~cfg.UseMongoLogger
                 THEN removeLines(s2, "MongodbOption") ELSE s2
           s4 == IF ~cfg.UseRedis THEN removeLines(s3, "RedisOption") ELSE s3
           s5 == IF ~cfg.UseRabbitMQ THEN removeLines(s4, "RabbitMQOption") ELSE s4 IN
       osWriteFile(f, "config/config.go", s5, M644, um)

Init_v0 ==
  /\ pc = "v0_logger"
  /\ config \in Configs_v0
  /\ rbuf = <<>>
  /\ eof = FALSE
  /\ confirmLine = [read |-> FALSE, line |-> <<>>]
  /\ tmpl \in [fileMode : {M644}, dirMode : {M755}, missing : {{}}]
  /\ call = NoCall
  /\ umask \in Umasks
  /\ fs = EmptyFS
  /\ prov = NoProvenance
  /\ err = NoError
  /\ exitCode = -1
  /\ log = <<>>
  /\ out = <<"banner">>
  /\ iofail = {}

\* The last question of collectConfiguration, asked unless the database is
\* MongoDB; collectConfiguration returns and printSummary prints.
PromptMongoLogger_v0 ==
  /\ pc = "v0_logger"
  /\ IF config.Database # "mongodb"
     THEN \E rd \in ReadString(rbuf, 5) :
            /\ rbuf' = rd.buf
            /\ eof' = rd.eof
            /\ config' = [config EXCEPT !.UseMongoLogger = promptBool(rd.line)]
     ELSE UNCHANGED <<config, rbuf, eof>>
  /\ pc' = "v0_confirm"
  /\ log' = Append(log, "collect")
  /\ out' = Append(out, "summary")
  /\ UNCHANGED confirmLine
  /\ NoFs

\* confirm, and main's return when the answer is no.
Confirm_v0 ==
  /\ pc = "v0_confirm"
  /\ \E rd \in ReadString(<<>>, 7) :
       /\ eof' = rd.eof
       /\ confirmLine' = [read |-> TRUE, line |-> rd.line]
       /\ IF confirm(rd.line)
          THEN pc' = "v0_mkdir" /\ UNCHANGED <<out, exitCode>>
          ELSE pc' = "exit" /\ out' = Append(out, "Cancelled.") /\ exitCode' = 0
  /\ rbuf' = <<>>
  /\ log' = Append(log, "confirm")
  /\ UNCHANGED <<config, tmpl, call, umask, fs, prov, err, iofail>>

MkdirProject_v0 ==
  /\ pc = "v0_mkdir"
  /\ Step("mkdir", osMkdirAll(fs, ".", M755, umask), "failed to create directory", "v0_copy")

CopyTemplate_v0 ==
  /\ pc = "v0_copy"
  /\ Step("copy", copyWalk(fs, Template(tmpl), umask, 1, 0),
          "failed to copy template", "v0_rewrite")

UpdateModulePaths_v0 ==
  /\ pc = "v0_rewrite"
  /\ Step("rewrite", updateModulePaths(fs, config, umask, 0),
          "failed to update module paths", "v0_prune")

CleanupFiles_v0 ==
  /\ pc = "v0_prune"
  /\ \E o1 \in MapOrders :
       Step("prune", cleanupFiles_v0(fs, config, o1), "failed to cleanup", "v0_devcontainer")

GenerateDevcontainer_v0 ==
  /\ pc = "v0_devcontainer"
  /\ Step("devcontainer", generateDevcontainer_v0(fs, config, umask),
          "failed to generate devcontainer", "v0_config")

UpdateConfigFiles_v0 ==
  /\ pc = "v0_config"
  /\ Step("config", updateConfigFiles_v0(fs, config, umask),
          "failed to update config", "v0_success")

PrintSuccess_v0 ==
  /\ pc = "v0_success"
  /\ out' = Append(out, "success")
  /\ log' = Append(log, "report")
  /\ exitCode' = 0
  /\ pc' = "exit"
  /\ UNCHANGED <<config, rbuf, eof, confirmLine, tmpl, call, umask, fs, prov, err, iofail>>

Next_v0 ==
  \/ PromptMongoLogger_v0
  \/ Confirm_v0
  \/ MkdirProject_v0
  \/ CopyTemplate_v0
  \/ UpdateModulePaths_v0
  \/ CleanupFiles_v0
  \/ GenerateDevcontainer_v0
  \/ UpdateConfigFiles_v0
  \/ PrintSuccess_v0

Spec_v0 == Init_v0 /\ [][Next_v0]_vars

(***************************************************************************)
(* Reading a composition document back: its sections, services, volumes.   *)
(***************************************************************************)
RECURSIVE Level(_)
Level(line) == IF line # <<>> /\ Head(line) = IND THEN 1 + Level(Tail(line)) ELSE 0

Toks(line) == SubSeq(line, Level(line) + 1, Len(line))

IsKey(line) == Len(Toks(line)) >= 2 /\ Toks(line)[2] = ":" /\ Toks(line)[1] # "-"

\* The index of the nearest key line of level lv at or above line i, 0 if none.
RECURSIVE Enclosing(_, _, _)
Enclosing(lines, i, lv) ==
  IF i = 0 THEN 0
  ELSE IF IsKey(lines[i]) /\ Level(lines[i]) = lv THEN i
  ELSE IF IsKey(lines[i]) /\ Level(lines[i]) < lv THEN 0
  ELSE Enclosing(lines, i - 1, lv)

KeyAt(lines, i) == IF i = 0 THEN "" ELSE Toks(lines[i])[1]

\* The indices of the lines that declare an entry of a top-level section.
Entries(lines, section) ==
  {i \in 1..Len(lines) :
     /\ IsKey(lines[i])
     /\ Level(lines[i]) = 1
     /\ KeyAt(lines, Enclosing(lines, i - 1, 0)) = section}

Names(lines, section) == {KeyAt(lines, i) : i \in Entries(lines, section)}

\* The values of key k in the block of service svc.
ServiceValues(lines, svc, k) ==
  {Toks(lines[i])[4] : i \in {j \in 1..Len(lines) :
     /\ IsKey(lines[j])
     /\ Level(lines[j]) = 2
     /\ Toks(lines[j])[1] = k
     /\ Len(Toks(lines[j])) >= 4
     /\ Enclosing(lines, j - 1, 1) \in Entries(lines, "services")
     /\ KeyAt(lines, Enclosing(lines, j - 1, 1)) = svc}}

ComposePath == ".devcontainer/docker-compose.yml"

Done(step) == \E i \in 1..Len(log) : log[i] = step

Last(s) == s[Len(s)]

DbImage(db) ==
  CASE db = "mysql" -> "mysql:8.0"
    [] db = "postgresql" -> "postgres:15-alpine"
    [] db = "mongodb" -> "mongo:6"

DbVolume(db) ==
  CASE db = "mysql" -> "mysql-data"
    [] db = "postgresql" -> "postgres-data"
    [] db = "mongodb" -> "mongodb-data"

(***************************************************************************)
(* The claims.                                                             *)
(***************************************************************************)

\* C1: when the line answered at the final confirmation is "n", the run
\* writes nothing: no step of createProject runs, the destination tree stays
\* empty, and main ends with status 0 right after printing "Cancelled.".
C1_CancelWritesNothing ==
  (confirmLine.read /\ TrimSpace(ToLower(confirmLine.line)) = <<"n">>) =>
    /\ fs = EmptyFS
    /\ \A i \in 1..Len(log) : log[i] \in {"collect", "confirm"}
    /\ err = NoError
    /\ pc \in {"cancelled", "exit"}
    /\ pc = "exit" => (exitCode = 0 /\ Last(out) = "Cancelled.")

C1_Witness ==
  /\ pc = "exit"
  /\ confirmLine.read
  /\ confirmLine.line = <<"N", SP>>
  /\ Last(out) = "Cancelled."

\* C2: after cleanupFiles, config/gorm.go is present when the database is
\* mysql, present when it is postgresql, and removed only for mongodb.
C2_SharedGormKept ==
  (pc = "devcontainer" /\ Done("prune")) =>
    (fs["config/gorm.go"].kind = "file" <=> config.Database \in {"mysql", "postgresql"})

\* C3: after cleanupFiles on a full copy of the template, every exclusively
\* owned file or directory exists exactly when its option is selected.
C3_PruningComplete ==
  (Done("prune") /\ tmpl.missing = {}) =>
    /\ \A db \in Databases :
         fs[dbConfigs(db)].kind = "file" <=> config.Database = db
    /\ fs["config/redis.go"].kind = "file" <=> config.UseRedis
    /\ fs["config/rabbitmq.go"].kind = "file" <=> config.UseRabbitMQ
    /\ fs["internal/repository/mongodb"].kind = "dir" <=> config.Database = "mongodb"

C3_Witness ==
  /\ pc = "devcontainer"
  /\ tmpl.missing = {}
  /\ Done("prune")
  /\ config.Database = "postgresql"
  /\ ~config.UseRedis
  /\ config.UseRabbitMQ
  /\ fs["config/postgre.go"].kind = "file"
  /\ fs["config/rabbitmq.go"].kind = "file"
  /\ fs["config/redis.go"].kind = "none"
  /\ fs["internal/repository/mongodb"].kind = "none"

\* C4: the composition document, as generateDevcontainer leaves it,
\* declares the redis service and the redis-data volume exactly when Redis is selected, the rabbitmq service
\* and the rabbitmq-data volume exactly when RabbitMQ is selected, nothing
\* else besides app and db, and exactly one db service and one database
\* volume, both of the selected database.
C4_ComposeOnlySelected ==
  (pc = "config" /\ Done("devcontainer") /\ fs[ComposePath].kind = "file") =>
    LET doc == Split(fs[ComposePath].content)
        S == Names(doc, "services")
        V == Names(doc, "volumes") IN
    /\ "redis" \in S <=> config.UseRedis
    /\ "redis-data" \in V <=> config.UseRedis
    /\ "rabbitmq" \in S <=> config.UseRabbitMQ
    /\ "rabbitmq-data" \in V <=> config.UseRabbitMQ
    /\ S \subseteq {"app", "db", "redis", "rabbitmq"}
    /\ {"app", "db"} \subseteq S
    /\ Cardinality(Entries(doc, "services")) = Cardinality(S)
    /\ Cardinality(Entries(doc, "volumes")) = Cardinality(V)
    /\ ServiceValues(doc, "db", "image") = {DbImage(config.Database)}
    /\ V \ {"redis-data", "rabbitmq-data"} = {DbVolume(config.Database)}

C4_Witness ==
  /\ Done("devcontainer")
  /\ fs[ComposePath].kind = "file"
  /\ config.Database = "mongodb"
  /\ config.UseRedis
  /\ ~config.UseRabbitMQ
  /\ Names(Split(fs[ComposePath].content), "services") = {"app", "db", "redis"}
  /\ Names(Split(fs[ComposePath].content), "volumes") = {"mongodb-data", "redis-data"}

\* C5: after a successful createProject the first line of go.mod is
\* "module " followed by config.ModulePath.
C5_GoModDeclaresModulePath ==
  (pc = "exit" /\ Done("report")) =>
    /\ fs["go.mod"].kind = "file"
    /\ Split(fs["go.mod"].content)[1] = <<"module", SP>> \o config.ModulePath

\* C6: running updateModulePaths again over the rewritten tree changes no
\* file.
C6_RewriteIdempotent ==
  (pc = "prune" /\ Done("rewrite")) =>
    updateModulePaths(fs, config, umask, 0).fs = fs

WrapOf(step) ==
  CASE step = "mkdir" -> "failed to create directory"
    [] step = "copy" -> "failed to copy template"
    [] step = "gomod" -> "failed to create go.mod"
    [] step = "rewrite" -> "failed to update module paths"
    [] step = "prune" -> "failed to cleanup"
    [] step = "devcontainer" -> "failed to generate devcontainer"
    [] step = "config" -> "failed to update config"
    [] step = "env" -> "failed to update env files"
    [] OTHER -> ""

\* C7: when a step of createProject fails, that step is the last one that
\* ran, it ran once, createProject's error carries that step's name, and
\* from then on the destination tree and the list of executed steps never
\* change.
C7_FailureAborts ==
  /\ [](\A s \in iofail \ {"prune"} :
          /\ err = [wrap |-> WrapOf(s), step |-> s]
          /\ Last(log) = s
          /\ Cardinality({i \in 1..Len(log) : log[i] = s}) = 1
          /\ pc \in {"failed", "exit"})
  /\ [][err # NoError => (fs' = fs /\ log' = log /\ err' = err)]_vars

C7_Witness ==
  /\ pc = "exit"
  /\ exitCode = 1
  /\ err = [wrap |-> "failed to update module paths", step |-> "rewrite"]
  /\ Last(log) = "rewrite"
  /\ fs["config/config.go"].kind = "file"

\* C8: the exit status is 0 exactly when generation succeeded or the user
\* cancelled, and it is not 0 when a filesystem call of a generation step
\* failed.
C8_ExitStatus ==
  pc = "exit" =>
    /\ exitCode = 0 <=> (Done("report") \/ Last(out) = "Cancelled.")
    /\ iofail # {} => exitCode # 0

Pos(step) == CHOOSE i \in 0..Len(log) : (i > 0 /\ log[i] = step) \/ (i = 0 /\ ~Done(step))

\* C9: the steps run in the order collect, confirm, copy, rewrite, prune,
\* generate, report, and go.mod and the composition document are written
\* only after rewrite and prune have completed.
C9_LinearOrder ==
  /\ \A i, j \in 1..Len(log) :
       (i < j /\ log[i] \in {"rewrite", "prune"}) => log[j] \notin {"collect", "confirm", "copy"}
  /\ \A g \in {"gomod", "devcontainer"} :
       Done(g) => (Done("rewrite") /\ Done("prune")
                   /\ Pos("rewrite") < Pos(g) /\ Pos("prune") < Pos(g))

\* C10: every file copyTemplate wrote has the permission bits of its template
\* file, and every directory it created the mode of its template directory.
C10_ModesPreserved ==
  (pc = "gomod" /\ Done("copy")) =>
    \A p \in (TemplateFiles \cup TemplateDirs) \ {"."} :
      fs[p].mode = Template(tmpl)[p].mode

C12_SharedRepoKept ==
  (pc = "devcontainer" /\ Done("prune")) =>
    /\ config.Database \in {"mysql", "postgresql"} =>
         /\ fs["internal/repository/mysql"].kind = "dir"
         /\ fs["internal/repository/mysql/todo_list.go"].kind = "file"
    /\ config.Database = "mongodb" =>
         /\ fs["internal/repository/mysql"].kind = "none"
         /\ fs["internal/repository/mysql/todo_list.go"].kind = "none"

C12_Witness ==
  /\ pc = "devcontainer"
  /\ Done("prune")
  /\ config.Database = "postgresql"
  /\ fs["internal/repository/mysql"].kind = "dir"
  /\ fs["internal/repository/mysql/todo_list.go"].kind = "file"
  /\ fs["internal/repository/mongodb"].kind = "none"

OptionNames ==
  {"MysqlOption", "PostgreSqlOption", "MongodbOption", "RedisOption", "RabbitMQOption"}

Selected(cfg, o) ==
  CASE o = "MysqlOption" -> cfg.Database = "mysql"
    [] o = "PostgreSqlOption" -> cfg.Database = "postgresql"
    [] o = "MongodbOption" -> cfg.Database = "mongodb"
    [] o = "RedisOption" -> cfg.UseRedis
    [] o = "RabbitMQOption" -> cfg.UseRabbitMQ

\* The indices of the lines of the struct definition of option o: from its
\* header line to its closing brace.
StructBlock(lines, o) ==
  {i \in 1..Len(lines) :
     \E h \in 1..i : /\ lines[h] = <<"type", SP, o, SP, "struct", SP, "{">>
                     /\ \A j \in h..(i - 1) : lines[j] # <<"}">>}

\* The indices of the lines that embed option o in Config.
EmbeddedField(lines, o) == {i \in 1..Len(lines) : lines[i] = <<IND, o>>}

RECURSIVE Without(_, _, _)
Without(lines, drop, i) ==
  IF i > Len(lines) THEN <<>>
  ELSE (IF i \in drop THEN <<>> ELSE <<lines[i]>>) \o Without(lines, drop, i + 1)

\* C13: after updateConfigFiles, config/config.go is the template's
\* config.go without the embedded field and without the whole struct
\* definition (header, field lines, closing brace) of every unselected
\* option; every other line, the definitions of the selected options
\* included, is left as it was.
C13_ConfigOnlySelected ==
  (pc = "env" /\ Done("config")) =>
    LET before == Split(TemplateContent("config/config.go"))
        drop == UNION {StructBlock(before, o) \cup EmbeddedField(before, o) :
                         o \in {x \in OptionNames : ~Selected(config, x)}} IN
    Split(fs["config/config.go"].content) = Without(before, drop, 1)

\* C14: after a successful run every file of the output tree has exactly
\* one provenance: a verbatim copy of its template file, a patched copy of
\* its template file, or generated content; no file is both generated and
\* patched.
C14_OneProvenance ==
  (pc = "exit" /\ Done("report")) =>
    \A p \in Paths :
      fs[p].kind = "file" =>
        prov[p] \in {{"copied"}, {"copied", "patched"}, {"generated"}}

\* The configuration collectConfiguration builds from the answers "demo",
\* (any path), "example.com/demo", "1", "y", "n".
DemoConfig(path) ==
  [ProjectName |-> promptString(<<"demo">>, DefaultName).val,
   ProjectPath |-> path,
   ModulePath |-> promptString(<<"example.com/", "demo">>, defaultModule(<<"demo">>)).val,
   Database |-> dbOfChoice(promptChoice(<<"1">>).val),
   UseRedis |-> promptBool(<<"y">>),
   UseRabbitMQ |-> promptBool(<<"n">>)]

\* C15: end to end, with the answers "demo", "example.com/demo", "1", "y",
\* "n" and a confirmed summary, the configuration is mysql with Redis and
\* without RabbitMQ; the output has the data-access files mysql needs
\* (config/mysql.go, the shared config/gorm.go, internal/repository/mysql)
\* and none of postgresql or mongodb; the composition document declares,
\* besides app, exactly the services db (mysql) and redis, their two
\* volumes, and no rabbitmq service.
C15_EndToEnd ==
  (/\ pc = "exit"
   /\ Done("report")
   /\ tmpl.missing = {}
   /\ config = DemoConfig(config.ProjectPath)) =>
    LET doc == Split(fs[ComposePath].content)
        S == Names(doc, "services") IN
    /\ config.Database = "mysql" /\ config.UseRedis /\ ~config.UseRabbitMQ
    /\ fs["config/mysql.go"].kind = "file"
    /\ fs["config/gorm.go"].kind = "file"
    /\ fs["internal/repository/mysql"].kind = "dir"
    /\ fs["internal/repository/mysql/todo_list.go"].kind = "file"
    /\ fs["config/postgre.go"].kind = "none"
    /\ fs["config/mongodb.go"].kind = "none"
    /\ fs["internal/repository/mongodb"].kind = "none"
    /\ fs["internal/repository/mongodb/log.go"].kind = "none"
    /\ S \ {"app"} = {"db", "redis"}
    /\ Cardinality(Entries(doc, "services")) = Cardinality(S)
    /\ ServiceValues(doc, "db", "image") = {DbImage("mysql")}
    /\ Names(doc, "volumes") = {"mysql-data", "redis-data"}
    /\ "rabbitmq" \notin S

\* The paths cleanupFiles can remove, with what lies below them.
Removable ==
  {"config/mysql.go", "config/postgre.go", "config/mongodb.go", "config/gorm.go",
   "config/redis.go", "config/rabbitmq.go",
   "internal/repository/mysql", "internal/repository/mysql/todo_list.go",
   "internal/repository/mongodb", "internal/repository/mongodb/log.go"}

\* The tree before cleanupFiles if the template had lacked nothing.
WithMissing(f) ==
  [p \in Paths |->
     IF p \in tmpl.missing THEN File(M666 \ umask, TemplateContent(p)) ELSE f[p]]

\* C16: when paths that cleanupFiles removes are absent before it runs, it
\* still returns no error, the tree it leaves is the one it leaves when
\* they are present (with the absent ones absent), and no file outside the
\* removable paths changes.
C16_DeleteIfExists ==
  [][(pc = "prune" /\ tmpl.missing # {}) =>
       /\ pc' = "devcontainer"
       /\ err' = NoError
       /\ \E o1, o2 \in MapOrders :
            LET usual == cleanupFiles(WithMissing(fs), config, o1, o2, {}).fs IN
            \A p \in Paths :
              fs'[p] = IF p \in tmpl.missing THEN Absent ELSE usual[p]
       /\ \A p \in Paths \ Removable : fs'[p] = fs[p]]_vars

C16_Witness ==
  /\ pc = "devcontainer"
  /\ Done("prune")
  /\ tmpl.missing = {"config/postgre.go", "config/redis.go"}
  /\ config.Database = "mysql"
  /\ ~config.UseRedis
  /\ ~config.UseRabbitMQ
  /\ err = NoError
  /\ fs["config/mongodb.go"].kind = "none"
  /\ fs["config/rabbitmq.go"].kind = "none"
  /\ fs["internal/repository/mongodb"].kind = "none"
  /\ fs["config/mysql.go"].kind = "file"
  /\ fs["config/config.go"].content = ConfigGo

\* The paths of the destination tree that end in .go or .mod.
GoOrModPaths ==
  {"config/config.go", "config/gorm.go", "config/mongodb.go", "config/mysql.go",
   "config/postgre.go", "config/rabbitmq.go", "config/redis.go", "go.mod",
   "internal/repository/mongodb/log.go", "internal/repository/mysql/todo_list.go"}

\* C17: updateModulePaths changes only files whose path ends in .go or
\* .mod: every other entry of the destination tree is as before, and no
\* entry is created or deleted.
C17_RewriteFrame ==
  [][pc = "rewrite" =>
       /\ \A p \in Paths : fs'[p].kind = fs[p].kind
       /\ \A p \in Paths \ GoOrModPaths : fs'[p] = fs[p]]_vars

C17_Witness ==
  /\ pc = "prune"
  /\ Done("rewrite")
  /\ config.ModulePath = <<"example.com/", "demo">>
  /\ fs["Makefile"].content = <<"MODULE", "=">> \o oldModule \o <<NL>>
  /\ fs["internal/repository/mysql/todo_list.go"].content
       = <<"import", SP, "example.com/", "demo", "/entity", NL>>
  /\ fs["go.mod"].kind = "file"

\* The question that follows question p.
NextQuestion(p) ==
  CASE p = "name" -> "path"
    [] p = "path" -> "module"
    [] p = "module" -> "db"
    [] p = "db" -> "redis"
    [] p = "redis" -> "rabbitmq"
    [] p = "rabbitmq" -> "summary"
    [] p = "summary" -> "confirm"

Questions == {"name", "path", "module", "db", "redis", "rabbitmq", "summary", "confirm"}

C19_PromptString ==
  /\ []((pc = "returned" /\ call.fn = "promptString") =>
          /\ call.ret # <<>>
          /\ call.ret = IF TrimSpace(call.line) # <<>> THEN TrimSpace(call.line)
                        ELSE call.def)
  /\ [][(pc = "call" /\ call.fn = "promptString") =>
          (pc' = IF TrimSpace(call'.line) = <<>> /\ call.def = <<>> THEN "call"
                 ELSE "returned")]_vars

C19_Witness ==
  /\ pc = "returned"
  /\ call.fn = "promptString"
  /\ call.def = <<>>
  /\ call.line = <<SP, "My", "-", "App">>
  /\ call.ret = <<"My", "-", "App">>
  /\ eof = FALSE

\* C20: promptChoice returns only members of the valid set: a line that,
\* trimmed, is neither empty nor a valid choice makes it ask again, an
\* empty line returns the default choice, and any other line returns the
\* valid choice it holds.
C20_PromptChoice ==
  /\ []((pc = "returned" /\ call.fn = "promptChoice") =>
          /\ call.ret \in validChoices
          /\ call.ret = IF TrimSpace(call.line) = <<>> THEN defaultChoice
                        ELSE TrimSpace(call.line))
  /\ [][(pc = "call" /\ call.fn = "promptChoice") =>
          LET input == TrimSpace(call'.line) IN
          (pc' = IF input # <<>> /\ input \notin validChoices THEN "call"
                 ELSE "returned")]_vars

C20_Witness ==
  /\ pc = "returned"
  /\ call.fn = "promptChoice"
  /\ out = <<"Invalid choice">>
  /\ call.line = <<"3", SP>>
  /\ call.ret = <<"3">>

\* C21: promptBool returns true exactly when the trimmed, lower-cased line
\* is "y" or "yes"; every other line, the empty line and the empty read at
\* end of input included, gives false; it reads one line and returns.
C21_PromptBool ==
  /\ []((pc = "returned" /\ call.fn = "promptBool") =>
          /\ call.yes <=> TrimSpace(ToLower(call.line)) \in {<<"y">>, <<"y", "e", "s">>}
          /\ (eof /\ rbuf = <<>> /\ call.line = <<>>) => ~call.yes)
  /\ [][(pc = "call" /\ call.fn = "promptBool") => pc' = "returned"]_vars

C21_Witness ==
  /\ pc = "returned"
  /\ call.fn = "promptBool"
  /\ call.line = <<"Y", "E", "S", SP>>
  /\ call.yes

\* C22: once collectConfiguration has returned, no step changes the
\* configuration: printSummary, confirm, every step of createProject and
\* printSuccess leave every field of ProjectConfig as it is.
C22_ConfigImmutable ==
  [][Done("collect") => config' = config]_vars

C22_Witness ==
  /\ pc = "exit"
  /\ Done("report")
  /\ config.ProjectName = <<"My", "-", "App">>
  /\ config.ProjectPath = <<"out">>
  /\ config.Database = "mongodb"
  /\ config.UseRabbitMQ

\* The items of the list under key k in the block of service svc: the token
\* that follows "- ".
ListItems(lines, svc, k) ==
  {Toks(lines[i])[3] : i \in {j \in 1..Len(lines) :
     /\ Level(lines[j]) = 3
     /\ Len(Toks(lines[j])) >= 3
     /\ Toks(lines[j])[1] = "-"
     /\ KeyAt(lines, Enclosing(lines, j - 1, 2)) = k
     /\ Enclosing(lines, j - 1, 1) \in Entries(lines, "services")
     /\ KeyAt(lines, Enclosing(lines, j - 1, 1)) = svc}}

\* C23: in the variant with MongoDB logging, after generation
\* config/mongodb.go exists and config.go keeps its MongodbOption line when
\* the database is mongodb or MongoDB logging is on, and both are gone
\* exactly when the database is not mongodb and logging is off.
C23_MongoLoggerKept ==
  (pc = "exit" /\ Done("report") /\ Done("config")) =>
    LET wanted == config.Database = "mongodb" \/ config.UseMongoLogger IN
    /\ fs["config/mongodb.go"].kind = "file" <=> wanted
    /\ Contains(fs["config/config.go"].content, <<IND, "MongodbOption", NL>>) <=> wanted

\* The services a configuration of the variant selects.
Selected_v0(cfg) ==
  {"app", "db"}
  \cup (IF cfg.UseRedis THEN {"redis"} ELSE {})
  \cup (IF cfg.UseRabbitMQ THEN {"rabbitmq"} ELSE {})
  \cup (IF cfg.UseMongoLogger /\ cfg.Database # "mongodb" THEN {"mongodb"} ELSE {})

\* C24: the composition document of the variant declares only selected
\* services, its app service depends only on selected services, and every
\* entry of depends_on names a service the document declares.
C24_ComposeOnlySelected_v0 ==
  (Done("devcontainer") /\ fs[ComposePath].kind = "file" /\ pc \in {"v0_config", "v0_success", "exit"}) =>
    LET doc == Split(fs[ComposePath].content)
        S == Names(doc, "services")
        deps == ListItems(doc, "app", "depends_on") IN
    /\ S \subseteq Selected_v0(config)
    /\ deps \subseteq Selected_v0(config)
    /\ deps \subseteq S

\* C25: no input line is lost between configuration and confirmation: when
\* collectConfiguration has left lines of standard input unconsumed, the
\* line confirm evaluates is the first of them.
C25_NoLineLost ==
  [][(pc = "confirm" /\ rbuf # <<>>) => confirmLine'.line = Head(rbuf)]_vars

\* C26: the composition document of src/main.go is consistent with itself:
\* every entry of the app service's depends_on is a declared service, every
\* declared service but app is in depends_on, every named volume a service
\* mounts is declared under volumes, and every declared volume is mounted.
C26_ComposeConsistent ==
  (pc = "config" /\ Done("devcontainer")) =>
    LET doc == Split(fs[ComposePath].content)
        S == Names(doc, "services")
        V == Names(doc, "volumes")
        deps == ListItems(doc, "app", "depends_on")
        mounted == UNION {ListItems(doc, s, "volumes") : s \in S} \ {".."} IN
    /\ deps \subseteq S
    /\ S \ {"app"} \subseteq deps
    /\ mounted \subseteq V
    /\ V \subseteq mounted

C26_Witness ==
  /\ pc = "config"
  /\ Done("devcontainer")
  /\ config.Database = "postgresql"
  /\ config.UseRedis
  /\ config.UseRabbitMQ
  /\ ListItems(Split(fs[ComposePath].content), "app", "depends_on")
       = {"db", "redis", "rabbitmq"}
  /\ ListItems(Split(fs[ComposePath].content), "db", "volumes") = {"postgres-data"}
  /\ Names(Split(fs[ComposePath].content), "volumes")
       = {"postgres-data", "redis-data", "rabbitmq-data"}

\* C27: once standard input has ended, collectConfiguration returns, and
\* every question asked after the end of input takes its default: the
\* default name, "./" + name, the default module path, database 1 (mysql),
\* no Redis, no RabbitMQ.
C27_CollectTerminates ==
  /\ eof ~> pc = "summary"
  /\ [][(eof /\ rbuf = <<>>) =>
          /\ pc = "name" => (pc' = "path" /\ config'.ProjectName = DefaultName)
          /\ pc = "path" =>
               (pc' = "module" /\ config'.ProjectPath = defaultPath(config.ProjectName))
          /\ pc = "module" =>
               (pc' = "db" /\ config'.ModulePath = defaultModule(config.ProjectName))
          /\ pc = "db" => (pc' = "redis" /\ config'.Database = "mysql")
          /\ pc = "redis" => (pc' = "rabbitmq" /\ ~config'.UseRedis)
          /\ pc = "rabbitmq" => (pc' = "summary" /\ ~config'.UseRabbitMQ)]_vars

C27_Witness ==
  /\ pc = "summary"
  /\ eof
  /\ log = <<"collect">>
  /\ config = [ProjectName |-> DefaultName,
               ProjectPath |-> <<"./">> \o DefaultName,
               ModulePath |-> <<"github.com/yourusername/">> \o DefaultName,
               Database |-> "mysql", UseRedis |-> FALSE, UseRabbitMQ |-> FALSE]

\* C28: every configuration collectConfiguration returns is well formed:
\* Database is mysql, postgresql or mongodb, for the choice 1, 2, 3 (an
\* empty choice giving mysql), the name, the path and the module path are
\* not empty, and an empty answer to the path or module question gives
\* "./" + name or "github.com/yourusername/" + name for the name entered.
C28_ConfigWellFormed ==
  /\ [](Done("collect") =>
          /\ config.Database \in {"mysql", "postgresql", "mongodb"}
          /\ config.ProjectName # <<>>
          /\ config.ProjectPath # <<>>
          /\ config.ModulePath # <<>>)
  /\ [][(pc = "db" /\ pc' = "redis" /\ rbuf # <<>>) =>
          config'.Database = (CASE TrimSpace(Head(rbuf)) \in {<<>>, <<"1">>} -> "mysql"
                                [] TrimSpace(Head(rbuf)) = <<"2">> -> "postgresql"
                                [] TrimSpace(Head(rbuf)) = <<"3">> -> "mongodb")]_vars
  /\ [][(pc = "path" /\ pc' = "module" /\ rbuf # <<>> /\ TrimSpace(Head(rbuf)) = <<>>) =>
          config'.ProjectPath = <<"./">> \o config.ProjectName]_vars
  /\ [][(pc = "module" /\ pc' = "db" /\ rbuf # <<>> /\ TrimSpace(Head(rbuf)) = <<>>) =>
          config'.ModulePath = <<"github.com/yourusername/">> \o config.ProjectName]_vars

C28_Witness ==
  /\ pc = "summary"
  /\ Done("collect")
  /\ config.ProjectName = <<"My", "-", "App">>
  /\ config.ProjectPath = <<"./", "My", "-", "App">>
  /\ config.ModulePath = <<"github.com/yourusername/", "My", "-", "App">>
  /\ config.Database = "mongodb"

\* One order of iteration over the three databases.
AlphabeticOrder == <<"mongodb", "mysql", "postgresql">>

\* C29: what cleanupFiles leaves does not depend on the order in which the
\* maps dbConfigs and dbRepos are iterated: whatever the two orders of a
\* run, the tree after the step is the one the alphabetic order gives.
C29_OrderIndependent ==
  [][pc = "prune" =>
       fs' = cleanupFiles(fs, config, AlphabeticOrder, AlphabeticOrder, {}).fs]_vars

C29_Witness ==
  /\ pc = "devcontainer"
  /\ Done("prune")
  /\ tmpl.missing = {}
  /\ config.Database = "mongodb"
  /\ fs["config/mysql.go"].kind = "none"
  /\ fs["config/postgre.go"].kind = "none"
  /\ fs["config/gorm.go"].kind = "none"
  /\ fs["internal/repository/mysql"].kind = "none"
  /\ fs["config/mongodb.go"].kind = "file"
  /\ fs["internal/repository/mongodb/log.go"].kind = "file"

\* The values of the environment variable k in the block of service svc.
ServiceEnv(lines, svc, k) ==
  {SubSeq(Toks(lines[i]), 4, Len(Toks(lines[i]))) : i \in {j \in 1..Len(lines) :
     /\ Level(lines[j]) = 3
     /\ IsKey(lines[j])
     /\ Toks(lines[j])[1] = k
     /\ KeyAt(lines, Enclosing(lines, j - 1, 2)) = "environment"
     /\ KeyAt(lines, Enclosing(lines, j - 1, 1)) = svc}}

DbNameKey(db) ==
  CASE db = "mysql" -> "MYSQL_DATABASE"
    [] db = "postgresql" -> "POSTGRES_DB"
    [] db = "mongodb" -> "MONGO_INITDB_DATABASE"

UpperCaseAtoms == {"Y", "E", "S", "N", "D", "My", "App"}

\* C30: the database name of the db service in the composition document
\* and the value put for every PROJECT_DB_NAME in
\* .devcontainer/.env.devcontainer are one string, the sanitized project
\* name, which has no upper-case letter and no "-" and which sanitizeName
\* maps to itself.
C30_DbNameConsistent ==
  (pc = "success" /\ Done("env")) =>
    LET doc == Split(fs[ComposePath].content)
        env == Split(fs[".devcontainer/.env.devcontainer"].content)
        inDoc == ServiceEnv(doc, "db", DbNameKey(config.Database)) IN
    /\ Cardinality(inDoc) = 1
    /\ \A name \in inDoc :
         /\ env = <<<<"DB_DATABASE", "=">> \o name, <<"DB_USER", "=">> \o name, <<>>>>
         /\ name # <<>>
         /\ \A i \in 1..Len(name) : name[i] \notin UpperCaseAtoms \cup {"-"}
         /\ name = ReplaceAll(ToLower(name), <<"-">>, <<"_">>)
         /\ Len(name) = Len(config.ProjectName)

C30_Witness ==
  /\ pc = "success"
  /\ Done("env")
  /\ config.ProjectName = <<"My", "-", "App">>
  /\ config.Database = "postgresql"
  /\ ServiceEnv(Split(fs[ComposePath].content), "db", "POSTGRES_DB") = {<<"my", "_", "app">>}
  /\ fs[".devcontainer/.env.devcontainer"].content
       = <<"DB_DATABASE", "=", "my", "_", "app", NL, "DB_USER", "=", "my", "_", "app", NL>>

====
